---- MODULE Spec2Model ----
(***************************************************************************)
(* Shipment lifecycle, audit log, auto-escalation sweep, transfer slips    *)
(* and Telegram notification of the repair-ticket tracker                  *)
(* (src/database.py, src/telegram_helpers.py, src/app.py).                 *)
(*                                                                         *)
(* Tables are sequences of rows; a row's AUTOINCREMENT id is its position. *)
(* Time is counted in ticks of half an hour (HOUR = 2 ticks), so that a    *)
(* row can be younger than, exactly, or older than one hour.               *)
(* Status names are the source's, written without diacritics.              *)
(* A ShipmentDetails row carries the columns the operations below decide   *)
(* on or write for the statuses drawn here: qr_code, status, created_by,   *)
(* updated_by, image_url (the ';'-joined string as the sequence of its     *)
(* URLs), telegram_message_id, received_time, completed_time, the repair   *)
(* timestamps and last_updated.                                            *)
(***************************************************************************)
EXTENDS Integers, Sequences, FiniteSets, TLC

VARIABLES
    ShipmentDetails,    \* table ShipmentDetails: Seq of rows, id = index
    AuditLog,           \* table AuditLog: Seq of rows, in the order of id
    TransferSlips,      \* table TransferSlips: Seq of rows, id = index
    TransferSlipItems,  \* table TransferSlipItems: Seq of (slip, shipment)
    now,                \* the wall clock (CURRENT_TIMESTAMP), in ticks
    call,               \* the last call made and what it returned
    files_data,         \* upload_multiple_files_to_drive: its argument
    futures,            \* ... the state of the future of each task
    results,            \* ... the list the results are appended to
    returned,           \* ... the list it returned
    upload_pc,          \* ... where the call stands
    session,            \* the script run of each browser session
    thread              \* the database call each session's thread is inside

uploadVars == <<files_data, futures, results, returned, upload_pc>>

dbVars == <<ShipmentDetails, AuditLog, TransferSlips, TransferSlipItems, now, call>>

vars == <<ShipmentDetails, AuditLog, TransferSlips, TransferSlipItems, now, call,
          files_data, futures, results, returned, upload_pc, session, thread>>

---------------------------------------------------------------------------
\* Bounds of the model
MaxShipments == 2
MaxAudit == 3
MaxNow == 3
MaxSlips == 2
MaxImages == 2
MaxItems == 3
MaxTasks == 3
MaxWorkers == 2

\* '-1 hour' of the sweep, in ticks
HOUR == 2

NULL == "NULL"
NoTime == 0 - 1
\* telegram_message_id of a shipment never notified (None, falsy)
NoMessageId == 0

Users == {"admin", "user"}
QRCodes == {"T-001", "T-002"}

DEFAULT_STATUS == "Da nhan"
\* the statuses on entry to which update_shipment_status stamps a time
TimedStatuses == {"Da nhan", "Dang sua chua", "Hoan thanh sua chua", "Hoan thanh YCSC"}
\* the statuses the sweep reads or writes
SweepStatuses == {"Da nhan", "Nhap kho", "Chuyen kho", "Nhap kho xu ly", "Dang xu ly"}
\* image_url arguments: None, or one uploaded URL
ImageArgs == {<<>>, <<"img1">>}
MessageIds == {101, 102}

\* browser sessions; each runs the script of the transfer slip screen
Sessions == {"s1", "s2"}
\* a session between two script runs
IdleSession == [pc |-> "idle", by |-> NULL, slip |-> 0]
\* a thread inside no call: pc is where a call stands, the other fields are
\* the call's arguments, its local variables and what it returns
IdleThread ==
    [pc |-> "idle", op |-> NULL, qr |-> NULL, id |-> 0, new_status |-> NULL,
     by |-> NULL, image |-> <<>>, old_status |-> NULL, current_image_url |-> <<>>,
     already_sent |-> NoMessageId, message_id |-> NoMessageId, rows |-> <<>>,
     stale |-> {}, escalated |-> {}, count |-> 0, sent |-> 0, success |-> FALSE]

---------------------------------------------------------------------------
\* Helpers

Ids(table) == 1..Len(table)

\* SELECT ... FROM ShipmentDetails WHERE qr_code = ?  (qr_code is UNIQUE)
IdsByQr(rows, qr) == {i \in Ids(rows) : rows[i].qr_code = qr}

\* the result of a call, as the caller sees it
Result(op, qr, id, arg, by, success, error, count, sent, member) ==
    [op |-> op, qr |-> qr, id |-> id, arg |-> arg, by |-> by, success |-> success,
     error |-> error, count |-> count, sent |-> sent, member |-> member]

\* f"Da tao phieu: {qr_code} - ..." of save_shipment
CreatedMsg(qr) ==
    CASE qr = "T-001" -> "Da tao phieu: T-001"
      [] qr = "T-002" -> "Da tao phieu: T-002"
      [] OTHER -> "Da tao phieu"

\* the id AUTOINCREMENT gives the next AuditLog row: one more than the
\* greatest id ever given, which is the id of the last row (cleanup_audit_log
\* never deletes the row of the greatest id)
NextAuditId(log) == IF log = <<>> THEN 1 ELSE log[Len(log)].id + 1

\* log_audit that records a fixed actor instead of changed_by
log_audit_fixed_actor(log, shipment_id, action, old_value, new_value, changed_by) ==
    Append(log, [id |-> NextAuditId(log), shipment_id |-> shipment_id,
                 action |-> action, old_value |-> old_value,
                 new_value |-> new_value, changed_by |-> "system",
                 timestamp |-> now])

\* log_audit writing over the newest entry instead of adding one
log_audit_replace(log, shipment_id, action, old_value, new_value, changed_by) ==
    IF log = <<>>
    THEN <<[id |-> 1, shipment_id |-> shipment_id, action |-> action,
            old_value |-> old_value, new_value |-> new_value,
            changed_by |-> changed_by, timestamp |-> now]>>
    ELSE [log EXCEPT ![Len(log)] =
             [id |-> @.id, shipment_id |-> shipment_id, action |-> action,
              old_value |-> old_value, new_value |-> new_value,
              changed_by |-> changed_by, timestamp |-> now]]

\* log_audit: INSERT INTO AuditLog (timestamp DEFAULT CURRENT_TIMESTAMP)
log_audit(log, shipment_id, action, old_value, new_value, changed_by) ==
    Append(log, [id |-> NextAuditId(log), shipment_id |-> shipment_id,
                 action |-> action, old_value |-> old_value,
                 new_value |-> new_value, changed_by |-> changed_by,
                 timestamp |-> now])

---------------------------------------------------------------------------
Init ==
    /\ ShipmentDetails = <<>>
    /\ AuditLog = <<>>
    /\ TransferSlips = <<>>
    /\ TransferSlipItems = <<>>
    /\ now = 0
    /\ call = [op |-> "init", qr |-> NULL, id |-> 0, arg |-> NULL, by |-> NULL,
               success |-> TRUE, error |-> NULL, count |-> 0, sent |-> 0,
               member |-> 0]
    /\ files_data = <<>>
    /\ futures = <<>>
    /\ results = <<>>
    /\ returned = <<>>
    /\ upload_pc = "idle"
    /\ session = [s \in Sessions |-> IdleSession]
    /\ thread = [s \in Sessions |-> IdleThread]

\* time passes
Tick ==
    /\ now < MaxNow
    /\ now' = now + 1
    /\ call' = Result("tick", NULL, 0, NULL, NULL, TRUE, NULL, 0, 0, 0)
    /\ UNCHANGED <<ShipmentDetails, AuditLog, TransferSlips, TransferSlipItems>>
    /\ UNCHANGED <<uploadVars, session, thread>>

\* how a call of sync_shipment_to_sheets can end: it returns, or it raises
\* (the import fails, the spreadsheet cannot be reached)
SyncOutcomes == BOOLEAN

\* a sync whose exception reaches the outer except of the mutation
sync_shipment_to_sheets_raises(res, sync_ok) ==
    IF sync_ok THEN res ELSE [res EXCEPT !.success = FALSE, !.error = "sync"]

\* try: sync_shipment_to_sheets(...) except Exception: print(warning)
\* res is the result the mutation goes on to return
sync_shipment_to_sheets(res, sync_ok) == res

\* save_shipment(qr_code, ..., created_by, image_url, status)
save_shipment(qr, by, image, status) ==
    /\ Len(ShipmentDetails) < MaxShipments
    /\ NextAuditId(AuditLog) <= MaxAudit
    /\ IF IdsByQr(ShipmentDetails, qr) # {}
       THEN \* sqlite3.IntegrityError on qr_code UNIQUE
            /\ call' = Result("save_shipment", qr, 0, status, by, FALSE, "Ma QR da ton tai", 0, 0, 0)
            /\ UNCHANGED <<ShipmentDetails, AuditLog>>
       ELSE LET id == Len(ShipmentDetails) + 1
                row == [id |-> id, qr_code |-> qr,
                        status |-> IF status # NULL THEN status ELSE DEFAULT_STATUS,
                        created_by |-> by, updated_by |-> NULL,
                        image_url |-> image, telegram_message_id |-> NoMessageId,
                        received_time |-> NoTime, completed_time |-> NoTime,
                        repair_start_date |-> NoTime,
                        repair_completion_date |-> NoTime,
                        ycsc_completion_date |-> NoTime, last_updated |-> now]
            IN /\ ShipmentDetails' = Append(ShipmentDetails, row)
               /\ AuditLog' = log_audit(AuditLog, id, "CREATED", NULL, CreatedMsg(qr), by)
               /\ call' \in {sync_shipment_to_sheets(
                               Result("save_shipment", qr, id, status, by,
                                      TRUE, NULL, 0, 0, 0), sync_ok) :
                            sync_ok \in SyncOutcomes}
    /\ UNCHANGED <<TransferSlips, TransferSlipItems, now, uploadVars, session, thread>>

\* the UPDATE that sets received_time only while it is NULL
StatusUpdate_received_once(row, new_status, by, image) ==
    [row EXCEPT
        !.status = new_status,
        !.updated_by = by,
        !.received_time = IF new_status = "Da nhan" /\ @ = NoTime THEN now ELSE @,
        !.repair_start_date = IF new_status = "Dang sua chua" THEN now ELSE @,
        !.repair_completion_date =
            IF new_status = "Hoan thanh sua chua" THEN now ELSE @,
        !.ycsc_completion_date = IF new_status = "Hoan thanh YCSC" THEN now ELSE @,
        !.completed_time = IF new_status = "Hoan thanh YCSC" THEN now ELSE @,
        !.image_url = IF image # <<>> THEN @ \o image ELSE @,
        !.last_updated = now]

\* the UPDATE of update_shipment_status, applied to the row it selects
StatusUpdate(row, new_status, by, image) ==
    [row EXCEPT
        !.status = new_status,
        !.updated_by = by,
        !.received_time = IF new_status = "Da nhan" THEN now ELSE @,
        !.repair_start_date = IF new_status = "Dang sua chua" THEN now ELSE @,
        !.repair_completion_date =
            IF new_status = "Hoan thanh sua chua" THEN now ELSE @,
        !.ycsc_completion_date = IF new_status = "Hoan thanh YCSC" THEN now ELSE @,
        !.completed_time = IF new_status = "Hoan thanh YCSC" THEN now ELSE @,
        !.image_url = IF image # <<>> THEN @ \o image ELSE @,
        !.last_updated = now]

\* update_shipment_status when the SELECT finds no row: 'Phieu khong ton tai'
status_not_found_unguarded(qr, new_status, by) ==
    /\ AuditLog' = log_audit(AuditLog, 0, "STATUS_CHANGED", NULL, new_status, by)
    /\ call' = Result("update_shipment_status", qr, 0, new_status, by,
                      TRUE, NULL, 0, 0, 0)
    /\ UNCHANGED ShipmentDetails

status_not_found(qr, new_status, by) ==
    /\ call' = Result("update_shipment_status", qr, 0, new_status, by,
                      FALSE, "Phieu khong ton tai", 0, 0, 0)
    /\ UNCHANGED <<ShipmentDetails, AuditLog>>

\* update_shipment_status(qr_code, new_status, updated_by, image_url)
update_shipment_status(qr, new_status, by, image) ==
    /\ NextAuditId(AuditLog) <= MaxAudit
    /\ LET found == IdsByQr(ShipmentDetails, qr)
       IN IF found = {}
          THEN status_not_found(qr, new_status, by)
          ELSE LET id == CHOOSE i \in found : TRUE
                   old_status == ShipmentDetails[id].status
               IN /\ Len(ShipmentDetails[id].image_url) + Len(image) <= MaxImages
                  /\ ShipmentDetails' =
                        [ShipmentDetails EXCEPT
                            ![id] = StatusUpdate(@, new_status, by, image)]
                  /\ AuditLog' = log_audit(AuditLog, id, "STATUS_CHANGED",
                                           old_status, new_status, by)
                  /\ call' \in {sync_shipment_to_sheets(
                                  Result("update_shipment_status", qr, id,
                                         new_status, by, TRUE, NULL, 0, 0, 0),
                                  sync_ok) : sync_ok \in SyncOutcomes}
    /\ UNCHANGED <<TransferSlips, TransferSlipItems, now, uploadVars, session, thread>>

\* the selection with < in place of <=
Selected_strict(row, src) == row.status = src /\ row.last_updated < now - HOUR

\* WHERE status = src AND datetime(last_updated) <= datetime('now', '-1 hour')
Selected(row, src) == row.status = src /\ row.last_updated <= now - HOUR

\* one UPDATE ... SET status = tgt, last_updated = CURRENT_TIMESTAMP of the sweep
RuleUpdate(rows, src, tgt) ==
    [i \in Ids(rows) |->
        IF Selected(rows[i], src)
        THEN [rows[i] EXCEPT !.status = tgt, !.last_updated = now]
        ELSE rows[i]]

\* cursor.rowcount of that UPDATE
RuleCount(rows, src) == Cardinality({i \in Ids(rows) : Selected(rows[i], src)})

\* the rows after the three UPDATEs of the sweep, run in order
SweepRows(rows) ==
    LET r1 == RuleUpdate(rows, "Da nhan", "Nhap kho xu ly")
        r2 == RuleUpdate(r1, "Nhap kho", "Nhap kho xu ly")
    IN RuleUpdate(r2, "Chuyen kho", "Dang xu ly")

\* updated_count: the sum of the three rowcounts
SweepCount(rows) ==
    LET r1 == RuleUpdate(rows, "Da nhan", "Nhap kho xu ly")
        r2 == RuleUpdate(r1, "Nhap kho", "Nhap kho xu ly")
    IN RuleCount(rows, "Da nhan") + RuleCount(r1, "Nhap kho")
       + RuleCount(r2, "Chuyen kho")

\* the sweep without conn.commit(): the rowcounts are reported, the rows are not kept
auto_update_no_commit ==
    /\ call' = Result("auto_update_status_after_1hour", NULL, 0, NULL, NULL,
                      TRUE, NULL, SweepCount(ShipmentDetails), 0, 0)
    /\ UNCHANGED <<ShipmentDetails, AuditLog, TransferSlips, TransferSlipItems, now>>
    /\ UNCHANGED <<uploadVars, session, thread>>

\* auto_update_status_after_1hour(): three UPDATEs in one transaction
auto_update_status_after_1hour ==
    /\ ShipmentDetails' = SweepRows(ShipmentDetails)
    /\ call' = Result("auto_update_status_after_1hour", NULL, 0, NULL, NULL,
                      TRUE, NULL, SweepCount(ShipmentDetails), 0, 0)
    /\ UNCHANGED <<AuditLog, TransferSlips, TransferSlipItems, now, uploadVars, session, thread>>

\* row a comes before row b in ORDER BY timestamp DESC, id DESC
Newer(a, b) ==
    \/ a.timestamp > b.timestamp
    \/ a.timestamp = b.timestamp /\ a.id > b.id

\* SELECT id FROM AuditLog ORDER BY timestamp DESC, id DESC LIMIT max_rows
KeepIds(log, max_rows) ==
    {log[i].id : i \in {j \in Ids(log) :
        Cardinality({k \in Ids(log) : Newer(log[k], log[j])}) < max_rows}}

\* cleanup_audit_log(max_rows)
cleanup_audit_log(max_rows) ==
    LET total_count == Len(AuditLog)
        keep_ids == KeepIds(AuditLog, max_rows)
        kept == SelectSeq(AuditLog, LAMBDA r : r.id \in keep_ids)
    IN /\ IF total_count <= max_rows
          THEN /\ call' = Result("cleanup_audit_log", NULL, 0, max_rows, NULL,
                                 TRUE, NULL, 0, 0, 0)
               /\ UNCHANGED AuditLog
          ELSE IF keep_ids # {}
          THEN \* DELETE FROM AuditLog WHERE id NOT IN (keep_ids)
               /\ AuditLog' = kept
               /\ call' = Result("cleanup_audit_log", NULL, 0, max_rows, NULL,
                                 TRUE, NULL, total_count - Len(kept), 0, 0)
          ELSE \* keep_ids is empty: no DELETE is run
               /\ call' = Result("cleanup_audit_log", NULL, 0, max_rows, NULL,
                                 TRUE, NULL, 0, 0, 0)
               /\ UNCHANGED AuditLog
       /\ UNCHANGED <<ShipmentDetails, TransferSlips, TransferSlipItems, now,
                      uploadVars, session, thread>>

\* clear_all_data(): DELETE FROM every table, in one transaction (Users and
\* Suppliers, seeded again, are not part of the model). The ids given after
\* it start again here; in the database the AUTOINCREMENT counters go on, and
\* nothing below tells a row by its id across a reset.
clear_all_data ==
    /\ TransferSlipItems' = <<>>
    /\ TransferSlips' = <<>>
    /\ AuditLog' = <<>>
    /\ ShipmentDetails' = <<>>
    /\ call' = Result("clear_all_data", NULL, 0, NULL, NULL, TRUE, NULL, 0, 0, 0)
    /\ UNCHANGED <<now, uploadVars, session, thread>>

\* how a call of notify_shipment_if_received was made
NotifyArg(force, is_update_image) ==
    CASE force /\ is_update_image -> "force+image"
      [] force /\ ~is_update_image -> "force"
      [] ~force /\ is_update_image -> "image"
      [] OTHER -> "plain"

\* if already_sent and not (is_update_image and image_url): return
NotifySkips(row, force, is_update_image) ==
    /\ row.telegram_message_id # NoMessageId
    /\ ~(is_update_image /\ row.image_url # <<>>)

\* what notify_shipment_if_received(shipment_id, force, is_update_image) does
\* on the rows; the Telegram API answers photo_ok to send_photo of the first
\* image, text_ok to send_text, and names the message message_id
NotifyOutcome(rows, id, force, is_update_image, photo_ok, text_ok, message_id) ==
    IF id \notin Ids(rows)
    THEN [rows |-> rows, sent |-> 0, success |-> FALSE, api_calls |-> 0]
    ELSE LET row == rows[id]
             images == row.image_url
             \* calls made to the Telegram API
             api_calls == IF images = <<>> THEN 1
                          ELSE IF photo_ok THEN Len(images) ELSE 2
             success == IF images = <<>> THEN text_ok
                        ELSE photo_ok \/ text_ok
         IN IF row.status # "Da nhan" \/ NotifySkips(row, force, is_update_image)
            THEN [rows |-> rows, sent |-> 0, success |-> FALSE, api_calls |-> 0]
            ELSE [rows |-> \* update_telegram_message(shipment_id, res['message_id'])
                           IF success
                           THEN [rows EXCEPT ![id].telegram_message_id = message_id]
                           ELSE rows,
                  sent |-> 1, success |-> success, api_calls |-> api_calls]

\* notify_shipment_if_received(shipment_id, force, is_update_image)
notify_shipment_if_received(id, force, is_update_image, photo_ok, text_ok, message_id) ==
    LET arg == NotifyArg(force, is_update_image)
        out == NotifyOutcome(ShipmentDetails, id, force, is_update_image,
                             photo_ok, text_ok, message_id)
    IN /\ ShipmentDetails' = out.rows
       /\ call' = IF out.sent = 0
                  THEN Result("notify_shipment_if_received", NULL, id, arg, NULL,
                              FALSE, NULL, 0, 0, 0)
                  ELSE Result("notify_shipment_if_received",
                              ShipmentDetails[id].qr_code, id, arg, NULL,
                              out.success,
                              IF out.success THEN NULL ELSE "telegram",
                              out.api_calls, 1, 0)
       /\ UNCHANGED <<AuditLog, TransferSlips, TransferSlipItems, now, uploadVars, session, thread>>

---------------------------------------------------------------------------
\* Direct edit (update_shipment and the two forms that call it)

\* the SET clause without 'qr_code = ?': the code of a row is never written
ShipmentUpdate_keeps_qr(row, qr, status, by, image) ==
    [row EXCEPT
        !.status = IF status # NULL THEN status ELSE @,
        !.received_time = IF status = "Da nhan" THEN now ELSE @,
        !.updated_by = IF by # NULL THEN by ELSE @,
        !.image_url = IF image # <<>> THEN image ELSE @,
        !.completed_time = IF status = "Hoan thanh YCSC" THEN now ELSE @,
        !.last_updated = now]

\* the SET clause of update_shipment, for the arguments the forms pass; an
\* argument that is None (NULL, <<>> for image_url) leaves its column alone
ShipmentUpdate(row, qr, status, by, image) ==
    [row EXCEPT
        !.qr_code = IF qr # NULL THEN qr ELSE @,
        !.status = IF status # NULL THEN status ELSE @,
        !.received_time = IF status = "Da nhan" THEN now ELSE @,
        !.updated_by = IF by # NULL THEN by ELSE @,
        !.image_url = IF image # <<>> THEN image ELSE @,
        !.completed_time = IF status = "Hoan thanh YCSC" THEN now ELSE @,
        !.last_updated = now]

\* update_shipment without the qr_code UNIQUE constraint
update_shipment_no_unique(rows, log, id, qr, status, by, image) ==
    [success |-> TRUE, error |-> NULL,
     rows |-> [i \in Ids(rows) |->
                 IF i = id THEN ShipmentUpdate(rows[i], qr, status, by, image)
                 ELSE rows[i]],
     log |-> log_audit(log, id, "UPDATED", NULL, "Da cap nhat",
                       IF by # NULL THEN by ELSE "system")]

\* update_shipment(shipment_id, qr_code, status, updated_by, image_url): the
\* rows and the audit log it leaves, and what it returns
update_shipment(rows, log, id, qr, status, by, image) ==
    IF qr = NULL /\ status = NULL /\ by = NULL /\ image = <<>>
    THEN [success |-> FALSE, error |-> "Khong co thong tin de cap nhat",
          rows |-> rows, log |-> log]
    ELSE IF /\ id \in Ids(rows)
            /\ qr # NULL
            /\ \E j \in Ids(rows) : j # id /\ rows[j].qr_code = qr
    THEN \* sqlite3.IntegrityError on qr_code UNIQUE
         [success |-> FALSE, error |-> "Ma QR da ton tai",
          rows |-> rows, log |-> log]
    ELSE [success |-> TRUE, error |-> NULL,
          rows |-> [i \in Ids(rows) |->
                      IF i = id THEN ShipmentUpdate(rows[i], qr, status, by, image)
                      ELSE rows[i]],
          log |-> log_audit(log, id, "UPDATED", NULL, "Da cap nhat",
                            IF by # NULL THEN by ELSE "system")]

\* after a successful edit both forms call notify_shipment_if_received for
\* these statuses, with force = 'no message sent yet' and
\* is_update_image = (uploaded is not None), which holds of the list returned
\* by st.file_uploader(accept_multiple_files=True)
NotifyAfterEdit == {"Da nhan", "Chuyen kho", "Gui NCC sua", "Chuyen cua hang"}

EditOutcome(res, id, had_message, telegram_ok) ==
    IF res.success /\ id \in Ids(res.rows) /\ res.rows[id].status \in NotifyAfterEdit
    THEN NotifyOutcome(res.rows, id, ~had_message, TRUE,
                       telegram_ok, telegram_ok, 101).rows
    ELSE res.rows

\* 'Luu thay doi' of the edit form of show_manage_shipments: the images
\* uploaded in the form, if any, are passed as the new image_url
show_manage_shipments(id, qr, status, by, uploaded, telegram_ok) ==
    LET row == ShipmentDetails[id]
        image_url == IF uploaded # <<>> THEN uploaded ELSE row.image_url
        res == update_shipment(ShipmentDetails, AuditLog, id, qr, status, by,
                               image_url)
    IN /\ id \in Ids(ShipmentDetails)
       /\ NextAuditId(AuditLog) <= MaxAudit
       /\ ShipmentDetails' =
             EditOutcome(res, id, row.telegram_message_id # NoMessageId, telegram_ok)
       /\ AuditLog' = res.log
       /\ call' = Result("show_manage_shipments", qr, id, status, by, res.success,
                         res.error, Len(uploaded), 0, 0)
       /\ UNCHANGED <<TransferSlips, TransferSlipItems, now, uploadVars, session, thread>>

\* 'Cap nhat' of the detail panel of show_dashboard: the images uploaded are
\* joined to the image_url the panel read
show_dashboard(id, status, by, uploaded, telegram_ok) ==
    LET row == ShipmentDetails[id]
        image_url == IF uploaded # <<>> THEN row.image_url \o uploaded
                     ELSE row.image_url
        res == update_shipment(ShipmentDetails, AuditLog, id, NULL, status, by,
                               image_url)
    IN /\ id \in Ids(ShipmentDetails)
       /\ NextAuditId(AuditLog) <= MaxAudit
       /\ Len(image_url) <= MaxImages
       /\ ShipmentDetails' =
             EditOutcome(res, id, row.telegram_message_id # NoMessageId, telegram_ok)
       /\ AuditLog' = res.log
       /\ call' = Result("show_dashboard", row.qr_code, id, status, by, res.success,
                         res.error, Len(uploaded), 0, 0)
       /\ UNCHANGED <<TransferSlips, TransferSlipItems, now, uploadVars, session, thread>>

---------------------------------------------------------------------------
\* Transfer slips

\* get_active_transfer_slip(created_by): the slip of the user still
\* 'Dang chuyen', the latest by created_at (LIMIT 1; a tie may go either way)
ActiveSlips(by) ==
    LET mine == {i \in Ids(TransferSlips) :
                    /\ TransferSlips[i].created_by = by
                    /\ TransferSlips[i].status = "Dang chuyen"}
    IN {i \in mine : \A j \in mine :
            TransferSlips[j].created_at <= TransferSlips[i].created_at}

\* create_transfer_slip(created_by); transfer_code is 'TC' + the second of
\* creation, so a slip created in the same second as another (code_taken)
\* violates transfer_code UNIQUE
create_transfer_slip(by, code_taken) ==
    /\ Len(TransferSlips) < MaxSlips
    /\ code_taken => \E i \in Ids(TransferSlips) : TransferSlips[i].created_at = now
    /\ IF code_taken
       THEN /\ call' = Result("create_transfer_slip", NULL, 0, NULL, by, FALSE,
                              "Ma phieu chuyen da ton tai", 0, 0, 0)
            /\ UNCHANGED TransferSlips
       ELSE LET id == Len(TransferSlips) + 1
            IN /\ TransferSlips' = Append(TransferSlips,
                     [id |-> id, status |-> "Dang chuyen", image_url |-> NULL,
                      created_by |-> by, completed_by |-> NULL,
                      created_at |-> now, completed_at |-> NoTime,
                      notes |-> NULL])
               /\ call' = Result("create_transfer_slip", NULL, id, NULL, by, TRUE,
                                 NULL, 0, 0, 0)
    /\ UNCHANGED <<ShipmentDetails, AuditLog, TransferSlipItems, now, uploadVars, thread>>

HasItem(items, slip_id, shipment_id) ==
    \E k \in Ids(items) :
        /\ items[k].transfer_slip_id = slip_id
        /\ items[k].shipment_id = shipment_id

\* the INSERT of add_shipment_to_transfer_slip on a table without
\* UNIQUE(transfer_slip_id, shipment_id)
InsertItem_no_unique(items, slip_id, shipment_id) ==
    [ok |-> TRUE,
     items |-> Append(items, [id |-> Len(items) + 1, transfer_slip_id |-> slip_id,
                              shipment_id |-> shipment_id, added_at |-> now])]

\* INSERT INTO TransferSlipItems under UNIQUE(transfer_slip_id, shipment_id)
InsertItem(items, slip_id, shipment_id) ==
    IF HasItem(items, slip_id, shipment_id)
    THEN [ok |-> FALSE, items |-> items]
    ELSE [ok |-> TRUE,
          items |-> Append(items, [id |-> Len(items) + 1,
                                   transfer_slip_id |-> slip_id,
                                   shipment_id |-> shipment_id,
                                   added_at |-> now])]

\* add_shipment_to_transfer_slip(transfer_slip_id, shipment_id)
add_shipment_to_transfer_slip(slip_id, shipment_id) ==
    LET ins == InsertItem(TransferSlipItems, slip_id, shipment_id)
    IN /\ Len(TransferSlipItems) < MaxItems
       /\ TransferSlipItems' = ins.items
       /\ call' = Result("add_shipment_to_transfer_slip", NULL, slip_id, NULL, NULL,
                         ins.ok,
                         IF ins.ok THEN NULL ELSE "May da co trong phieu chuyen",
                         0, 0, shipment_id)
       /\ UNCHANGED <<ShipmentDetails, AuditLog, TransferSlips, now, uploadVars, thread>>

\* the UPDATE of update_transfer_slip(id, status, image_url, completed_by, notes)
SlipUpdate(row, status, image_url, completed_by, notes) ==
    [row EXCEPT
        !.status = IF status # NULL THEN status ELSE @,
        !.image_url = IF image_url # NULL THEN image_url ELSE @,
        !.completed_by = IF completed_by # NULL THEN completed_by ELSE @,
        !.notes = IF notes # NULL THEN notes ELSE @,
        !.completed_at = IF status # NULL /\ status # "Dang chuyen" THEN now ELSE @]

\* SELECT shipment_id FROM TransferSlipItems WHERE transfer_slip_id = ?
SlipMembers(slip_id) ==
    LET mine == SelectSeq(TransferSlipItems,
                          LAMBDA it : it.transfer_slip_id = slip_id)
    IN [k \in 1..Len(mine) |-> mine[k].shipment_id]

\* the rows after the member UPDATEs number 1..upto of the cascade
CascadeRows(rows, slip_id, new_status, members, upto) ==
    [i \in Ids(rows) |->
        IF \E k \in 1..upto : members[k] = i
        THEN [rows[i] EXCEPT !.status = new_status,
                             !.updated_by = TransferSlips[slip_id].created_by]
        ELSE rows[i]]

\* the cascade committing each member UPDATE on its own: the members before
\* the failing one stay updated
Cascade_per_member_commit(rows, slip_id, new_status, fail_at) ==
    LET members == SlipMembers(slip_id)
    IN IF Len(members) = 0
       THEN [rows |-> rows, success |-> FALSE, updated_count |-> 0,
             error |-> "Khong co may nao trong phieu chuyen"]
       ELSE IF fail_at \in 1..Len(members)
       THEN [rows |-> CascadeRows(rows, slip_id, new_status, members, fail_at - 1),
             success |-> FALSE, updated_count |-> fail_at - 1, error |-> "exception"]
       ELSE [rows |-> CascadeRows(rows, slip_id, new_status, members, Len(members)),
             success |-> TRUE, updated_count |-> Len(members), error |-> NULL]

\* update_transfer_slip_shipments_status(transfer_slip_id, new_status): one
\* transaction over the members; the UPDATE of member number fail_at raises
\* (0: none does), and the except branch rolls every UPDATE back
Cascade(rows, slip_id, new_status, fail_at) ==
    LET members == SlipMembers(slip_id)
    IN IF Len(members) = 0
       THEN [rows |-> rows, success |-> FALSE, updated_count |-> 0,
             error |-> "Khong co may nao trong phieu chuyen"]
       ELSE IF fail_at \in 1..Len(members)
       THEN [rows |-> rows, success |-> FALSE, updated_count |-> 0,
             error |-> "exception"]
       ELSE [rows |-> CascadeRows(rows, slip_id, new_status, members, Len(members)),
             success |-> TRUE, updated_count |-> Len(members), error |-> NULL]

\* a notification sent for each member of the completed slip
SlipNotifications_per_member(res, members) ==
    IF res.success THEN Len(members) ELSE 0

\* the messages the button sends to Telegram: send_transfer_slip_notification
\* is called after a successful cascade only, and makes one call, send_photo
\* or send_text, for the slip and its members together
SlipNotifications(res, members) == IF res.success THEN 1 ELSE 0

\* the 'Hoan thanh phieu chuyen' button of show_transfer_slip_scan:
\* update_transfer_slip, then update_transfer_slip_shipments_status, then
\* send_transfer_slip_notification
complete_transfer(by, slip_id, new_status, image_url, notes, fail_at) ==
    LET members == SlipMembers(slip_id)
        res == Cascade(ShipmentDetails, slip_id, new_status, fail_at)
        failing == IF fail_at \in 1..Len(members) THEN members[fail_at] ELSE 0
    IN /\ fail_at <= Len(members)
       /\ TransferSlips' =
             [TransferSlips EXCEPT
                ![slip_id] = SlipUpdate(@, "Da hoan thanh", image_url, by, notes)]
       /\ ShipmentDetails' = res.rows
       /\ call' = Result("complete_transfer", NULL, slip_id, new_status, by,
                         res.success, res.error, res.updated_count,
                         SlipNotifications(res, members), failing)
       /\ UNCHANGED <<AuditLog, TransferSlipItems, now, uploadVars, thread>>

---------------------------------------------------------------------------
\* The script runs of show_transfer_slip_scan. Each run first reads the
\* active slip of its user and then, in steps of its own, acts on what it
\* read; the runs of different sessions interleave.

\* active_slip = get_active_transfer_slip(current_user), at the top of a run
script_run(s, by) ==
    /\ session[s].pc = "idle"
    /\ \/ /\ ActiveSlips(by) = {}
          /\ session' = [session EXCEPT ![s] = [pc |-> "no_slip", by |-> by, slip |-> 0]]
       \/ \E slip_id \in ActiveSlips(by) :
             session' = [session EXCEPT
                            ![s] = [pc |-> "has_slip", by |-> by, slip |-> slip_id]]
    /\ UNCHANGED <<dbVars, uploadVars, thread>>

\* the run ends with no button pressed, or after its action
script_end(s) ==
    /\ session[s].pc # "idle"
    /\ session' = [session EXCEPT ![s] = IdleSession]
    /\ UNCHANGED <<dbVars, uploadVars, thread>>

\* 'Tao Phieu Chuyen Moi' in a run that found no active slip
script_create(s, code_taken) ==
    /\ session[s].pc = "no_slip"
    /\ create_transfer_slip(session[s].by, code_taken)
    /\ session' = [session EXCEPT ![s] = IdleSession]

\* a scanned QR code is added to the slip the run read
script_add(s, qr) ==
    /\ session[s].pc = "has_slip"
    /\ \E id \in IdsByQr(ShipmentDetails, qr) :
          add_shipment_to_transfer_slip(session[s].slip, id)
    /\ session' = [session EXCEPT ![s] = IdleSession]

\* 'Hoan thanh phieu chuyen' on the slip the run read
script_complete(s, new_status, image_url, fail_at) ==
    /\ session[s].pc = "has_slip"
    /\ complete_transfer(session[s].by, session[s].slip, new_status, image_url,
                         NULL, fail_at)
    /\ session' = [session EXCEPT ![s] = IdleSession]

---------------------------------------------------------------------------
\* Parallel upload (src/drive_upload.py)

\* the states of a future that has completed: upload_file_to_drive returned a
\* success dict, returned an error dict, or upload_single_file raised
Completed == {"ok", "error", "raise"}

\* the lists of n tasks with the indexes 1..n: in the order of enumerate(), as
\* the callers build them, and in the opposite order
TaskLists(n) ==
    {[i \in 1..n |-> [index |-> i]], [i \in 1..n |-> [index |-> n + 1 - i]]}

\* what the loop over as_completed appends for the future of task i:
\* future.result() with its index, or the dict built in the except branch
FutureResult(i) ==
    CASE futures[i] = "ok" ->
            [index |-> files_data[i].index, success |-> TRUE, error |-> NULL,
             url |-> "url"]
      [] futures[i] = "error" ->
            [index |-> files_data[i].index, success |-> FALSE, error |-> "error",
             url |-> NULL]
      [] OTHER ->
            [index |-> files_data[i].index, success |-> FALSE,
             error |-> "exception", url |-> NULL]

\* the future of task i has been yielded by as_completed
Yielded(i) == \E k \in 1..Len(results) : results[k].index = files_data[i].index

\* the position of s[i] once s is sorted by index, equal keys keeping their
\* order (list.sort is stable)
RankByIndex(s, i) ==
    Cardinality({j \in 1..Len(s) :
        \/ s[j].index < s[i].index
        \/ s[j].index = s[i].index /\ j <= i})

\* the list returned unsorted, in the order of completion
SortByIndex_unsorted(s) == s

\* results.sort(key=lambda x: x['index'])
SortByIndex(s) ==
    [k \in 1..Len(s) |-> s[CHOOSE i \in 1..Len(s) : RankByIndex(s, i) = k]]

\* the loop that ends at the first failed result
LoopDone_on_first_failure ==
    \/ \A i \in 1..Len(files_data) : Yielded(i)
    \/ \E k \in 1..Len(results) : ~results[k].success

\* the loop over as_completed is exhausted: every future has been yielded
LoopDone == \A i \in 1..Len(files_data) : Yielded(i)

\* upload_multiple_files_to_drive(files_data, max_workers): every task is
\* submitted to the executor
upload_multiple_files_to_drive(data) ==
    /\ upload_pc = "idle"
    /\ files_data' = data
    /\ futures' = [i \in 1..Len(data) |-> "pending"]
    /\ results' = <<>>
    /\ upload_pc' = "collecting"
    /\ UNCHANGED <<returned, dbVars, session, thread>>

\* a free worker thread of the pool takes the next task of the queue
worker_start(i) ==
    /\ upload_pc = "collecting"
    /\ i \in 1..Len(futures)
    /\ futures[i] = "pending"
    /\ \A j \in 1..(i - 1) : futures[j] # "pending"
    /\ Cardinality({j \in 1..Len(futures) : futures[j] = "running"}) < MaxWorkers
    /\ futures' = [futures EXCEPT ![i] = "running"]
    /\ UNCHANGED <<files_data, results, returned, upload_pc, dbVars, session, thread>>

\* upload_single_file(data) ends in a worker thread, with outcome
upload_single_file(i, outcome) ==
    /\ upload_pc = "collecting"
    /\ i \in 1..Len(futures)
    /\ futures[i] = "running"
    /\ futures' = [futures EXCEPT ![i] = outcome]
    /\ UNCHANGED <<files_data, results, returned, upload_pc, dbVars, session, thread>>

\* one turn of 'for future in as_completed(future_to_data)'
as_completed_next(i) ==
    /\ upload_pc = "collecting"
    /\ ~LoopDone
    /\ i \in 1..Len(futures)
    /\ futures[i] \in Completed
    /\ ~Yielded(i)
    /\ results' = Append(results, FutureResult(i))
    /\ UNCHANGED <<files_data, futures, returned, upload_pc, dbVars, session, thread>>

\* the loop has ended: the executor is shut down, the results are sorted
\* and returned
upload_return ==
    /\ upload_pc = "collecting"
    /\ LoopDone
    /\ returned' = SortByIndex(results)
    /\ upload_pc' = "returned"
    /\ UNCHANGED <<files_data, futures, results, dbVars, session, thread>>

\* the caller has gone through the returned list; the next call starts afresh
upload_results_read ==
    /\ upload_pc = "returned"
    /\ files_data' = <<>>
    /\ futures' = <<>>
    /\ results' = <<>>
    /\ returned' = <<>>
    /\ upload_pc' = "idle"
    /\ UNCHANGED <<dbVars, session, thread>>

---------------------------------------------------------------------------
\* Calls running at once. Every browser session runs its script in a thread
\* of its own, and every database function opens a connection of its own
\* (get_connection), so the statements of two calls interleave. sqlite3 opens
\* a transaction before the first UPDATE/INSERT of a connection and holds
\* the write lock of the database file until commit; a SELECT takes no lock
\* and reads what is committed.

\* where a connection holds the write lock between two steps
InTransaction == {"rule2", "rule3", "commit"}

\* a database without the write lock: two transactions write at once
WriteLockFree_none(s) == TRUE

\* no other connection holds the write lock
WriteLockFree(s) == \A t \in Sessions \ {s} : thread[t].pc \notin InTransaction

NoOpenTransaction == \A s \in Sessions : thread[s].pc \notin InTransaction

\* the caller has read what the call returned
thread_return(s) ==
    /\ thread[s].pc = "done"
    /\ thread' = [thread EXCEPT ![s] = IdleThread]
    /\ UNCHANGED <<dbVars, uploadVars, session>>

\* update_shipment_status, statement by statement: the SELECT
status_select(s, qr, new_status, by, image) ==
    LET found == IdsByQr(ShipmentDetails, qr)
    IN /\ thread[s].pc = "idle"
       /\ thread' = [thread EXCEPT ![s] =
             IF found = {}
             THEN \* return {'success': False, 'error': 'Phieu khong ton tai'}
                  [IdleThread EXCEPT !.pc = "done", !.op = "update_shipment_status",
                                     !.qr = qr, !.new_status = new_status, !.by = by]
             ELSE LET id == CHOOSE i \in found : TRUE
                  IN [IdleThread EXCEPT
                         !.pc = "selected", !.op = "update_shipment_status",
                         !.qr = qr, !.new_status = new_status, !.by = by,
                         !.image = image, !.id = id,
                         !.old_status = ShipmentDetails[id].status,
                         !.current_image_url = ShipmentDetails[id].image_url]]
       /\ UNCHANGED <<dbVars, uploadVars, session>>

\* ... the UPDATE ... WHERE qr_code = ? and conn.commit(); image_url is set
\* to the string joined from the image_url the SELECT read
status_update(s) ==
    LET t == thread[s]
    IN /\ t.pc = "selected"
       /\ WriteLockFree(s)
       /\ Len(t.current_image_url) + Len(t.image) <= MaxImages
       /\ ShipmentDetails' =
             [i \in Ids(ShipmentDetails) |->
                 IF ShipmentDetails[i].qr_code = t.qr
                 THEN [StatusUpdate(ShipmentDetails[i], t.new_status, t.by, <<>>)
                          EXCEPT !.image_url = IF t.image # <<>>
                                               THEN t.current_image_url \o t.image
                                               ELSE @]
                 ELSE ShipmentDetails[i]]
       /\ thread' = [thread EXCEPT ![s].pc = "updated"]
       /\ UNCHANGED <<AuditLog, TransferSlips, TransferSlipItems, now, call,
                      uploadVars, session>>

\* ... log_audit(shipment_id, 'STATUS_CHANGED', old_status, new_status,
\* updated_by) on its own connection, the sync, and the return
status_log_audit(s) ==
    LET t == thread[s]
    IN /\ t.pc = "updated"
       /\ WriteLockFree(s)
       /\ NextAuditId(AuditLog) <= MaxAudit
       /\ AuditLog' = log_audit(AuditLog, t.id, "STATUS_CHANGED", t.old_status,
                                t.new_status, t.by)
       /\ thread' = [thread EXCEPT ![s].pc = "done", ![s].success = TRUE]
       /\ UNCHANGED <<ShipmentDetails, TransferSlips, TransferSlipItems, now, call,
                      uploadVars, session>>

\* notify_shipment_if_received(shipment_id, force=False,
\* is_update_image=False), step by step: get_shipment_by_id and the tests
notify_read(s, id) ==
    /\ thread[s].pc = "idle"
    /\ id \in Ids(ShipmentDetails)
    /\ LET row == ShipmentDetails[id]
       IN thread' = [thread EXCEPT ![s] =
             IF row.status # "Da nhan" \/ NotifySkips(row, FALSE, FALSE)
             THEN [IdleThread EXCEPT !.pc = "done",
                                     !.op = "notify_shipment_if_received",
                                     !.id = id,
                                     !.already_sent = row.telegram_message_id]
             ELSE [IdleThread EXCEPT !.pc = "send",
                                     !.op = "notify_shipment_if_received",
                                     !.id = id,
                                     !.already_sent = row.telegram_message_id,
                                     !.current_image_url = row.image_url]]
    /\ UNCHANGED <<dbVars, uploadVars, session>>

\* ... send_photo of the first image, with send_text when it fails or when
\* there is no image; a message that arrives is counted in sent
notify_send(s, photo_ok, text_ok, message_id) ==
    LET t == thread[s]
        success == IF t.current_image_url = <<>> THEN text_ok
                   ELSE photo_ok \/ text_ok
    IN /\ t.pc = "send"
       /\ thread' = [thread EXCEPT ![s] =
             IF success
             THEN [t EXCEPT !.pc = "persist", !.sent = 1, !.success = TRUE,
                            !.message_id = message_id]
             ELSE [t EXCEPT !.pc = "done"]]
       /\ UNCHANGED <<dbVars, uploadVars, session>>

\* ... update_telegram_message(shipment_id, res['message_id'])
notify_persist(s) ==
    LET t == thread[s]
    IN /\ t.pc = "persist"
       /\ WriteLockFree(s)
       /\ ShipmentDetails' =
             [ShipmentDetails EXCEPT ![t.id].telegram_message_id = t.message_id]
       /\ thread' = [thread EXCEPT ![s].pc = "done"]
       /\ UNCHANGED <<AuditLog, TransferSlips, TransferSlipItems, now, call,
                      uploadVars, session>>

\* the UPDATE a sweep is about to run
SweepRule(pc) ==
    CASE pc = "rule1" -> [src |-> "Da nhan", tgt |-> "Nhap kho xu ly", next |-> "rule2"]
      [] pc = "rule2" -> [src |-> "Nhap kho", tgt |-> "Nhap kho xu ly", next |-> "rule3"]
      [] OTHER -> [src |-> "Chuyen kho", tgt |-> "Dang xu ly", next |-> "commit"]

\* auto_update_status_after_1hour(), statement by statement: the call at
\* the top of a script run (stale: the rows one of its UPDATEs would select
\* at this moment)
sweep_call(s) ==
    /\ thread[s].pc = "idle"
    /\ thread' = [thread EXCEPT ![s] =
          [IdleThread EXCEPT
              !.pc = "rule1", !.op = "auto_update_status_after_1hour",
              !.stale = {i \in Ids(ShipmentDetails) :
                            \/ Selected(ShipmentDetails[i], "Da nhan")
                            \/ Selected(ShipmentDetails[i], "Nhap kho")
                            \/ Selected(ShipmentDetails[i], "Chuyen kho")}]]
    /\ UNCHANGED <<dbVars, uploadVars, session>>

\* ... one of its three UPDATEs. The first opens the transaction and takes
\* the write lock; until the commit the rows written are the connection's own
sweep_rule(s) ==
    LET t == thread[s]
        rule == SweepRule(t.pc)
        rows == IF t.pc = "rule1" THEN ShipmentDetails ELSE t.rows
    IN /\ t.pc \in {"rule1", "rule2", "rule3"}
       /\ t.pc = "rule1" => WriteLockFree(s)
       /\ thread' = [thread EXCEPT ![s] =
             [t EXCEPT !.pc = rule.next,
                       !.rows = RuleUpdate(rows, rule.src, rule.tgt),
                       !.escalated = @ \cup {i \in Ids(rows) :
                                                Selected(rows[i], rule.src)},
                       !.count = @ + RuleCount(rows, rule.src)]]
       /\ UNCHANGED <<dbVars, uploadVars, session>>

\* ... conn.commit() and the return of updated_count
sweep_commit(s) ==
    LET t == thread[s]
    IN /\ t.pc = "commit"
       /\ ShipmentDetails' = t.rows
       /\ thread' = [thread EXCEPT ![s] =
             [t EXCEPT !.pc = "done", !.success = TRUE, !.rows = <<>>]]
       /\ UNCHANGED <<AuditLog, TransferSlips, TransferSlipItems, now, call,
                      uploadVars, session>>

\* ... the first UPDATE waits for the write lock longer than the timeout of
\* the connection: sqlite3.OperationalError, rollback, updated_count 0
sweep_locked(s) ==
    /\ thread[s].pc = "rule1"
    /\ ~WriteLockFree(s)
    /\ thread' = [thread EXCEPT ![s].pc = "done"]
    /\ UNCHANGED <<dbVars, uploadVars, session>>

---------------------------------------------------------------------------
\* The store and the transition engine
Next ==
    \/ \E qr \in QRCodes, by \in Users, image \in ImageArgs :
          save_shipment(qr, by, image, NULL)
    \/ \E qr \in QRCodes \cup {"T-404"}, st \in SweepStatuses, by \in Users,
          image \in ImageArgs :
          update_shipment_status(qr, st, by, image)

Spec == Init /\ [][Next]_vars

\* The store, the transition engine, the clock and the sweep
NextSweep ==
    \/ Tick
    \/ \E qr \in QRCodes : save_shipment(qr, "admin", <<>>, NULL)
    \/ \E qr \in QRCodes, st \in SweepStatuses :
          update_shipment_status(qr, st, "user", <<>>)
    \/ auto_update_status_after_1hour

SpecSweep == Init /\ [][NextSweep]_vars

\* The store, the transition engine and the notification dispatcher
NextNotify ==
    \/ \E qr \in QRCodes, image \in ImageArgs, st \in {NULL, "Nhap kho"} :
          save_shipment(qr, "admin", image, st)
    \/ \E qr \in QRCodes, st \in {"Da nhan", "Nhap kho"}, image \in ImageArgs :
          update_shipment_status(qr, st, "user", image)
    \/ \E id \in 1..MaxShipments, force \in BOOLEAN, is_update_image \in BOOLEAN,
          photo_ok \in BOOLEAN, text_ok \in BOOLEAN, message_id \in MessageIds :
          notify_shipment_if_received(id, force, is_update_image,
                                      photo_ok, text_ok, message_id)

SpecNotify == Init /\ [][NextNotify]_vars

\* A mutation and the notification its caller sends after it, with the
\* Telegram API answering or failing
NextIsolate ==
    \/ \E qr \in QRCodes, image \in ImageArgs :
          save_shipment(qr, "admin", image, NULL)
    \/ \E qr \in QRCodes, st \in {"Da nhan", "Nhap kho"} :
          update_shipment_status(qr, st, "user", <<>>)
    \/ \E id \in 1..MaxShipments, photo_ok \in BOOLEAN, text_ok \in BOOLEAN :
          notify_shipment_if_received(id, TRUE, FALSE, photo_ok, text_ok, 101)

SpecIsolate == Init /\ [][NextIsolate]_vars

\* Two sessions notifying at once, as notify_shipment_if_received(id) is
\* called with its defaults
NextNotifyRace ==
    \/ \E qr \in QRCodes, image \in ImageArgs :
          save_shipment(qr, "admin", image, NULL)
    \/ \E s \in Sessions, id \in 1..MaxShipments : notify_read(s, id)
    \/ \E s \in Sessions, photo_ok \in BOOLEAN, text_ok \in BOOLEAN,
          message_id \in MessageIds :
          notify_send(s, photo_ok, text_ok, message_id)
    \/ \E s \in Sessions : notify_persist(s)
    \/ \E s \in Sessions : thread_return(s)

SpecNotifyRace == Init /\ [][NextNotifyRace]_vars

\* the image a session has uploaded for its status change
UploadedBy(s) == IF s = "s1" THEN <<"img1">> ELSE <<"img2">>

\* Two sessions changing the status of shipments at once
NextStatusRace ==
    \/ save_shipment("T-001", "admin", <<>>, NULL)
    \/ \E s \in Sessions, qr \in QRCodes, st \in {"Nhap kho", "Chuyen kho"} :
          \E image \in {<<>>, UploadedBy(s)} :
             status_select(s, qr, st, "user", image)
    \/ \E s \in Sessions : status_update(s)
    \/ \E s \in Sessions : status_log_audit(s)
    \/ \E s \in Sessions : thread_return(s)

SpecStatusRace == Init /\ [][NextStatusRace]_vars

\* Two sessions loading a page, and so running the sweep, at once
NextSweepRace ==
    \/ Tick
    \/ \E qr \in QRCodes, st \in {NULL, "Nhap kho", "Chuyen kho"} :
          NoOpenTransaction /\ save_shipment(qr, "admin", <<>>, st)
    \/ \E s \in Sessions : sweep_call(s)
    \/ \E s \in Sessions : sweep_rule(s)
    \/ \E s \in Sessions : sweep_commit(s)
    \/ \E s \in Sessions : sweep_locked(s)
    \/ \E s \in Sessions : thread_return(s)

SpecSweepRace == Init /\ [][NextSweepRace]_vars

\* The store and the transfer slip screen: each user works on the slip
\* get_active_transfer_slip returns for them
NextSlip ==
    \/ \E qr \in QRCodes : save_shipment(qr, "admin", <<>>, NULL)
    \/ \E by \in Users, code_taken \in BOOLEAN :
          /\ ActiveSlips(by) = {}
          /\ create_transfer_slip(by, code_taken)
          /\ UNCHANGED session
    \/ \E by \in Users, qr \in QRCodes :
          \E slip_id \in ActiveSlips(by), id \in IdsByQr(ShipmentDetails, qr) :
             add_shipment_to_transfer_slip(slip_id, id) /\ UNCHANGED session
    \/ \E by \in Users, st \in {"Chuyen kho", "Da nhan"},
          fail_at \in 0..MaxShipments :
          \E slip_id \in ActiveSlips(by) :
             /\ complete_transfer(by, slip_id, st, "proof.jpg", NULL, fail_at)
             /\ UNCHANGED session

SpecSlip == Init /\ [][NextSlip]_vars

\* The store, the transition engine, the clock and the audit log cleanup
NextAudit ==
    \/ Tick
    \/ \E qr \in QRCodes : save_shipment(qr, "admin", <<>>, NULL)
    \/ \E qr \in QRCodes, st \in {"Da nhan", "Nhap kho"} :
          update_shipment_status(qr, st, "user", <<>>)
    \/ \E max_rows \in 0..MaxAudit : cleanup_audit_log(max_rows)
    \/ clear_all_data

SpecAudit == Init /\ [][NextAudit]_vars

\* The store, the transition engine and the two edit forms
NextEdit ==
    \/ \E qr \in QRCodes, image \in ImageArgs : save_shipment(qr, "admin", image, NULL)
    \/ \E qr \in QRCodes, image \in ImageArgs :
          update_shipment_status(qr, "Nhap kho", "user", image)
    \/ \E id \in 1..MaxShipments, qr \in QRCodes, uploaded \in {<<>>, <<"img2">>},
          telegram_ok \in BOOLEAN :
          show_manage_shipments(id, qr, "Da nhan", "user", uploaded, telegram_ok)
    \/ \E id \in 1..MaxShipments, uploaded \in {<<>>, <<"img2">>},
          telegram_ok \in BOOLEAN :
          show_dashboard(id, "Nhap kho", "user", uploaded, telegram_ok)

SpecEdit == Init /\ [][NextEdit]_vars

\* One shipment and one transfer slip under every operation that writes a
\* shipment row, and the clock
NextTouch ==
    \/ Tick
    \/ save_shipment("T-001", "admin", <<>>, NULL)
    \/ update_shipment_status("T-001", "Nhap kho", "user", <<>>)
    \/ show_dashboard(1, "Da nhan", "user", <<>>, TRUE)
    \/ auto_update_status_after_1hour
    \/ notify_shipment_if_received(1, FALSE, FALSE, TRUE, TRUE, 101)
    \/ /\ TransferSlips = <<>>
       /\ create_transfer_slip("admin", FALSE)
       /\ UNCHANGED session
    \/ \E slip_id \in ActiveSlips("admin"), id \in IdsByQr(ShipmentDetails, "T-001") :
          add_shipment_to_transfer_slip(slip_id, id) /\ UNCHANGED session
    \/ \E slip_id \in ActiveSlips("admin") :
          /\ complete_transfer("admin", slip_id, "Chuyen kho", "proof.jpg", NULL, 0)
          /\ UNCHANGED session

SpecTouch == Init /\ [][NextTouch]_vars

\* One shipment moved between the statuses that stamp a time, by
\* update_shipment_status and by a direct edit, and the clock
NextTimes ==
    \/ Tick
    \/ save_shipment("T-001", "admin", <<>>, NULL)
    \/ \E st \in TimedStatuses : update_shipment_status("T-001", st, "user", <<>>)
    \/ \E st \in {"Da nhan", "Hoan thanh YCSC", "Dang sua chua"} :
          show_dashboard(1, st, "user", <<>>, TRUE)

SpecTimes == Init /\ [][NextTimes]_vars

\* The transfer slip screen run by two sessions at once
NextSession ==
    \/ save_shipment("T-001", "admin", <<>>, NULL)
    \/ \E s \in Sessions, by \in Users : script_run(s, by)
    \/ \E s \in Sessions : script_end(s)
    \/ \E s \in Sessions, code_taken \in BOOLEAN : script_create(s, code_taken)
    \/ \E s \in Sessions : script_add(s, "T-001")
    \/ \E s \in Sessions, image_url \in {NULL, "proof.jpg"} :
          script_complete(s, "Chuyen kho", image_url, 0)

SpecSession == Init /\ [][NextSession]_vars

\* The parallel upload: one call, its worker threads and its collecting loop
NextUpload ==
    \/ \E n \in 0..MaxTasks : \E data \in TaskLists(n) :
          upload_multiple_files_to_drive(data)
    \/ \E i \in 1..MaxTasks : worker_start(i)
    \/ \E i \in 1..MaxTasks, outcome \in Completed : upload_single_file(i, outcome)
    \/ \E i \in 1..MaxTasks : as_completed_next(i)
    \/ upload_return
    \/ upload_results_read

SpecUpload == Init /\ [][NextUpload]_vars

\* a step of a worker thread or of the calling thread
UploadStep ==
    \/ \E i \in 1..MaxTasks : worker_start(i)
    \/ \E i \in 1..MaxTasks, outcome \in Completed : upload_single_file(i, outcome)
    \/ \E i \in 1..MaxTasks : as_completed_next(i)
    \/ upload_return

\* the threads keep running: a started upload ends, a free worker takes the
\* next task, the calling thread goes on
SpecUploadLive == Init /\ [][NextUpload]_vars /\ WF_vars(UploadStep)

---------------------------------------------------------------------------
\* Properties of the transition engine (Spec)

LastAudit(log) == log[Len(log)]

C2_NotFoundNoChange ==
    [][(call'.op = "update_shipment_status"
        /\ IdsByQr(ShipmentDetails, call'.qr) = {}) =>
        /\ ~call'.success
        /\ call'.error = "Phieu khong ton tai"
        /\ ShipmentDetails' = ShipmentDetails
        /\ AuditLog' = AuditLog]_vars

\* the call failed on an unknown qr_code while the store held shipments
C2_Witness ==
    /\ call.op = "update_shipment_status" /\ ~call.success
    /\ call.qr = "T-404"
    /\ Len(ShipmentDetails) > 0 /\ Len(AuditLog) > 0

---------------------------------------------------------------------------
\* Properties of the sweep (SpecSweep)

SweepSources == {"Da nhan", "Nhap kho", "Chuyen kho"}

\* the documented mapping source status -> target status
SweepTarget(st) ==
    CASE st = "Da nhan" -> "Nhap kho xu ly"
      [] st = "Nhap kho" -> "Nhap kho xu ly"
      [] st = "Chuyen kho" -> "Dang xu ly"
      [] OTHER -> st

\* a row is stale once its last_updated lies one hour or more in the past
IsStale(row) == row.status \in SweepSources /\ now - row.last_updated >= HOUR

IsSweep(c) == c.op = "auto_update_status_after_1hour"

\* C3: the sweep moves exactly the stale rows in a source status to the mapped
\* target; a row updated within the hour, or in another status, keeps its
\* status; the returned count is the number of rows moved.
C3_SweepTransitionsExactlyStale ==
    [][IsSweep(call') =>
        /\ Len(ShipmentDetails') = Len(ShipmentDetails)
        /\ \A i \in Ids(ShipmentDetails) :
              IF IsStale(ShipmentDetails[i])
              THEN ShipmentDetails'[i].status = SweepTarget(ShipmentDetails[i].status)
              ELSE ShipmentDetails'[i].status = ShipmentDetails[i].status
        /\ call'.count = Cardinality({i \in Ids(ShipmentDetails) :
                                         IsStale(ShipmentDetails[i])})]_vars

\* a sweep moved one stale row and left a fresh 'Da nhan' row alone
C3_Witness ==
    /\ IsSweep(call) /\ call.count = 1
    /\ \E i, j \in Ids(ShipmentDetails) :
          /\ ShipmentDetails[i].status = "Nhap kho xu ly"
          /\ ShipmentDetails[i].last_updated = now
          /\ ShipmentDetails[i].updated_by = NULL
          /\ ShipmentDetails[j].status = "Da nhan"
          /\ now - ShipmentDetails[j].last_updated < HOUR

\* C4: in every state left by a sweep (no other call made, no time passed
\* since), a second sweep reports 0 and changes no row.
C4_SweepIdempotent ==
    IsSweep(call) =>
        /\ SweepCount(ShipmentDetails) = 0
        /\ SweepRows(ShipmentDetails) = ShipmentDetails

\* a sweep has just escalated two rows, one by each target
C4_Witness ==
    /\ IsSweep(call) /\ call.count = 2
    /\ \E i, j \in Ids(ShipmentDetails) :
          /\ ShipmentDetails[i].status = "Nhap kho xu ly"
          /\ ShipmentDetails[i].last_updated = now
          /\ ShipmentDetails[j].status = "Dang xu ly"
          /\ ShipmentDetails[j].last_updated = now

\* C5: a sweep appends one audit entry per escalated row, old -> new status,
\* changed_by 'system'; the entries added equal the returned count.
C5_SweepAudited ==
    [][IsSweep(call') =>
        /\ Len(AuditLog') = Len(AuditLog) + call'.count
        /\ \A k \in (Len(AuditLog) + 1)..Len(AuditLog') :
              /\ AuditLog'[k].action = "STATUS_CHANGED"
              /\ AuditLog'[k].changed_by = "system"]_vars

---------------------------------------------------------------------------
\* Properties of the notification dispatcher (SpecNotify)

IsNotify(c) == c.op = "notify_shipment_if_received"
WithForce(c) == c.arg \in {"force", "force+image"}
WithImageUpdate(c) == c.arg \in {"image", "force+image"}

\* the call is made for an existing shipment in the eligible status 'Da nhan'
NotifiesEligible(c) ==
    /\ IsNotify(c)
    /\ c.id \in Ids(ShipmentDetails)
    /\ ShipmentDetails[c.id].status = "Da nhan"

RefSet(id) == ShipmentDetails[id].telegram_message_id # NoMessageId

\* C6: for a shipment in 'Da nhan': a call made while no reference is stored
\* sends one notification; once the reference is stored, a call with
\* force=false (and no image update) sends nothing, and a call with
\* force=true and is_update_image=true sends again, with or without images.
C6_FirstSendsThenForcedResend ==
    [][NotifiesEligible(call') =>
        /\ (~RefSet(call'.id)) => call'.sent = 1
        /\ (RefSet(call'.id) /\ ~WithForce(call') /\ ~WithImageUpdate(call'))
              => call'.sent = 0
        /\ (RefSet(call'.id) /\ WithForce(call') /\ WithImageUpdate(call'))
              => call'.sent = 1]_vars

\* C7: for a shipment in 'Da nhan' the call skips sending exactly when the
\* reference is stored and force is false and is_update_image is false; so a
\* call with force=true on a shipment whose reference is stored sends.
C7_SkipsIffSentAndNotForced ==
    [][NotifiesEligible(call') =>
        (call'.sent = 0 <=>
            (RefSet(call'.id) /\ ~WithForce(call') /\ ~WithImageUpdate(call')))]_vars

---------------------------------------------------------------------------
\* Properties of the transfer slips (SpecSlip)

IsComplete(c) == c.op = "complete_transfer"
IsAddItem(c) == c.op = "add_shipment_to_transfer_slip"

\* the ids of the shipments in a slip
MemberSet(slip_id) ==
    {TransferSlipItems[k].shipment_id :
        k \in {j \in Ids(TransferSlipItems) :
                  TransferSlipItems[j].transfer_slip_id = slip_id}}

\* the member whose update failed in the completion c, if any
FailedMembers(c) == IF c.member # 0 THEN {c.member} ELSE {}

C9_CascadeAudited ==
    [][(IsComplete(call') /\ call'.success) =>
        \A m \in MemberSet(call'.id) :
           /\ ShipmentDetails'[m].status = call'.arg
           /\ ShipmentDetails'[m].updated_by = call'.by
           /\ Cardinality({k \in (Len(AuditLog) + 1)..Len(AuditLog') :
                 /\ AuditLog'[k].shipment_id = m
                 /\ AuditLog'[k].action = "STATUS_CHANGED"
                 /\ AuditLog'[k].old_value = ShipmentDetails[m].status
                 /\ AuditLog'[k].new_value = call'.arg}) = 1]_vars

NoDuplicateItems ==
    \A j, k \in Ids(TransferSlipItems) :
        (/\ TransferSlipItems[j].transfer_slip_id = TransferSlipItems[k].transfer_slip_id
         /\ TransferSlipItems[j].shipment_id = TransferSlipItems[k].shipment_id)
        => j = k

\* C10: adding a (slip, shipment) pair not yet in the slip succeeds and adds
\* it; adding a pair already there fails with 'May da co trong phieu chuyen'
\* and changes nothing; no pair ever occurs twice among the items.
C10_AddItemOnce ==
    /\ []NoDuplicateItems
    /\ [][IsAddItem(call') =>
            IF HasItem(TransferSlipItems, call'.id, call'.member)
            THEN /\ ~call'.success
                 /\ call'.error = "May da co trong phieu chuyen"
                 /\ UNCHANGED <<ShipmentDetails, AuditLog, TransferSlips,
                                TransferSlipItems>>
            ELSE /\ call'.success
                 /\ Len(TransferSlipItems') = Len(TransferSlipItems) + 1
                 /\ HasItem(TransferSlipItems', call'.id, call'.member)]_vars

\* the second call for a pair was refused and the pair is in the slip once
C10_Witness ==
    /\ IsAddItem(call) /\ ~call.success
    /\ Cardinality({k \in Ids(TransferSlipItems) :
          /\ TransferSlipItems[k].transfer_slip_id = call.id
          /\ TransferSlipItems[k].shipment_id = call.member}) = 1

---------------------------------------------------------------------------
\* Properties of the parallel upload (SpecUpload, SpecUploadLive)

\* C11: the call returns exactly one result per task, carrying the task's
\* index and reporting success exactly when the task's upload succeeded
\* (failed by error dict or by exception otherwise), in increasing order of
\* index, whatever the order in which the futures completed.
C11_UploadOneResultPerTaskInOrder ==
    upload_pc = "returned" =>
        /\ Len(returned) = Len(files_data)
        /\ \A i \in 1..Len(files_data) :
              \E k \in 1..Len(returned) :
                 /\ returned[k].index = files_data[i].index
                 /\ returned[k].success = (futures[i] = "ok")
                 /\ \A l \in 1..Len(returned) :
                       returned[l].index = returned[k].index => l = k
        /\ \A k, l \in 1..Len(returned) :
              k < l => returned[k].index < returned[l].index

\* three tasks given out of index order returned: one failed by error dict,
\* one by exception, and the futures were collected in another order than
\* the one returned
C11_Witness ==
    /\ upload_pc = "returned"
    /\ Len(files_data) = 3
    /\ files_data[1].index # 1
    /\ \E i, j \in 1..3 : futures[i] = "error" /\ futures[j] = "raise"
    /\ \E i \in 1..3 : futures[i] = "ok"
    /\ results # returned

\* C12: the call returns only when every submitted task has completed and
\* its result has been collected, also after a task has failed; and once
\* the tasks are submitted the call eventually returns.
C12_UploadWaitsForAll ==
    /\ [](upload_pc = "returned" =>
            /\ \A i \in 1..Len(files_data) : futures[i] \in Completed
            /\ Len(results) = Len(files_data))
    /\ (upload_pc = "collecting" ~> upload_pc = "returned")

\* the call returned after a failure was collected first and the sibling
\* tasks still ran to their end, one of them with success
C12_Witness ==
    /\ upload_pc = "returned"
    /\ Len(files_data) = 3
    /\ ~results[1].success
    /\ results[3].success

---------------------------------------------------------------------------
\* Properties of the audit log cleanup (SpecAudit)

IsCleanup(c) == c.op = "cleanup_audit_log"

\* max(0, n - max_rows)
Excess(n, max_rows) == IF n > max_rows THEN n - max_rows ELSE 0

\* C13: cleanup_audit_log(max_rows) on a log of n entries deletes exactly
\* max(0, n - max_rows) entries and returns that count; no entry is added or
\* altered, and every entry kept is newer by (timestamp, id) than every entry
\* deleted.
C13_CleanupKeepsNewest ==
    [][IsCleanup(call') =>
        LET kept == {AuditLog'[k] : k \in Ids(AuditLog')}
            old == {AuditLog[k] : k \in Ids(AuditLog)}
        IN /\ kept \subseteq old
           /\ Len(AuditLog') = Len(AuditLog) - Excess(Len(AuditLog), call'.arg)
           /\ call'.count = Excess(Len(AuditLog), call'.arg)
           /\ \A a \in kept, b \in old \ kept : Newer(a, b)]_vars

---------------------------------------------------------------------------
\* Properties of the shipment record under every way of changing it

\* s is a prefix of t
IsPrefix(s, t) == Len(s) <= Len(t) /\ SubSeq(t, 1, Len(s)) = s

QrCodeUnique ==
    \A i, j \in Ids(ShipmentDetails) :
        ShipmentDetails[i].qr_code = ShipmentDetails[j].qr_code => i = j

\* C16: no two shipments ever share a qr_code; save_shipment with a qr_code
\* already in the store fails with 'Ma QR da ton tai' and adds neither a
\* shipment nor an audit entry; an edit that would give a shipment the
\* qr_code of another fails the same way and changes nothing.
C16_QrCodeUnique ==
    /\ []QrCodeUnique
    /\ [][(call'.op = "save_shipment"
           /\ IdsByQr(ShipmentDetails, call'.qr) # {}) =>
            /\ ~call'.success
            /\ call'.error = "Ma QR da ton tai"
            /\ ShipmentDetails' = ShipmentDetails
            /\ AuditLog' = AuditLog]_vars
    /\ [][(call'.op = "show_manage_shipments"
           /\ IdsByQr(ShipmentDetails, call'.qr) \ {call'.id} # {}) =>
            /\ ~call'.success
            /\ call'.error = "Ma QR da ton tai"
            /\ ShipmentDetails' = ShipmentDetails
            /\ AuditLog' = AuditLog]_vars

\* a second shipment was refused for the qr_code an edit had given to the
\* first one
C16_Witness ==
    /\ call.op = "save_shipment" /\ ~call.success
    /\ call.error = "Ma QR da ton tai"
    /\ Len(ShipmentDetails) = 1
    /\ ShipmentDetails[1].qr_code = "T-002"
    /\ call.qr = "T-002"

\* C15: every step that changes a column of a shipment row sets the row's
\* last_updated to the current time; last_updated never decreases and never
\* lies in the future.
C15_LastUpdatedRefreshed ==
    /\ [](\A i \in Ids(ShipmentDetails) : ShipmentDetails[i].last_updated <= now)
    /\ [][\A i \in Ids(ShipmentDetails) :
            /\ ShipmentDetails'[i].last_updated >= ShipmentDetails[i].last_updated
            /\ ShipmentDetails'[i] # ShipmentDetails[i] =>
                  ShipmentDetails'[i].last_updated = now']_vars

\* C17: save_shipment without a status stores the shipment with the default
\* status 'Da nhan' and a received_time, and appends exactly one CREATED
\* audit entry for it.
C17_CreatedReceived ==
    [][(call'.op = "save_shipment" /\ call'.success /\ call'.arg = NULL) =>
        /\ Len(ShipmentDetails') = Len(ShipmentDetails) + 1
        /\ ShipmentDetails'[call'.id].status = DEFAULT_STATUS
        /\ ShipmentDetails'[call'.id].received_time # NoTime
        /\ Len(AuditLog') = Len(AuditLog) + 1
        /\ LastAudit(AuditLog').action = "CREATED"
        /\ LastAudit(AuditLog').shipment_id = call'.id]_vars

IsStatusChange(c) == c.op = "update_shipment_status" /\ c.success
IsEdit(c) == c.op \in {"show_dashboard", "show_manage_shipments"} /\ c.success

\* C18 as stated: a change or an edit to 'Da nhan' of a shipment whose
\* received_time is set leaves received_time as it was.
C18_ReceivedTimeSetOnce ==
    [][((IsStatusChange(call') \/ IsEdit(call'))
        /\ call'.arg = "Da nhan"
        /\ ShipmentDetails[call'.id].received_time # NoTime) =>
            ShipmentDetails'[call'.id].received_time =
                ShipmentDetails[call'.id].received_time]_vars

\* the time a column has after a step that stamps it on entry to status st
Stamped(column, st, c) == IF c.arg = st THEN now ELSE column

\* C18 (amended): every successful change or edit to 'Da nhan' sets
\* received_time to the current time, whether or not it was set; likewise
\* completed_time on every entry to 'Hoan thanh YCSC'; update_shipment_status
\* also stamps the repair timestamps on every entry to their status, while a
\* direct edit leaves them alone; a column whose status is not entered keeps
\* its value.
C18_TimestampsOverwritten ==
    [][(IsStatusChange(call') \/ IsEdit(call')) =>
        LET old == ShipmentDetails[call'.id]
            new == ShipmentDetails'[call'.id]
        IN /\ new.received_time = Stamped(old.received_time, "Da nhan", call')
           /\ new.completed_time = Stamped(old.completed_time, "Hoan thanh YCSC", call')
           /\ IF IsStatusChange(call')
              THEN /\ new.repair_start_date =
                         Stamped(old.repair_start_date, "Dang sua chua", call')
                   /\ new.repair_completion_date =
                         Stamped(old.repair_completion_date, "Hoan thanh sua chua", call')
                   /\ new.ycsc_completion_date =
                         Stamped(old.ycsc_completion_date, "Hoan thanh YCSC", call')
              ELSE /\ new.repair_start_date = old.repair_start_date
                   /\ new.repair_completion_date = old.repair_completion_date
                   /\ new.ycsc_completion_date = old.ycsc_completion_date]_vars

\* the shipment entered 'Da nhan' twice, at two times, and its received_time
\* is the time of the second entry
C18_Witness ==
    /\ IsStatusChange(call) /\ call.arg = "Da nhan"
    /\ Len(AuditLog) = 3
    /\ AuditLog[2].new_value = "Da nhan"
    /\ AuditLog[3].new_value = "Da nhan"
    /\ AuditLog[2].timestamp < AuditLog[3].timestamp
    /\ ShipmentDetails[call.id].received_time = AuditLog[3].timestamp

---------------------------------------------------------------------------
\* Properties of the transfer slips under concurrent sessions (SpecSession)

\* the shipments the items give to a slip
ItemsOf(items, slip_id) ==
    {items[k].shipment_id :
        k \in {j \in Ids(items) : items[j].transfer_slip_id = slip_id}}

\* C19: once a slip is 'Da hoan thanh' no step changes its row (status,
\* completed_by, completed_at, image_url, notes) or its set of items.
C19_CompletedSlipImmutable ==
    [][\A i \in Ids(TransferSlips) :
          TransferSlips[i].status = "Da hoan thanh" =>
             /\ TransferSlips'[i] = TransferSlips[i]
             /\ ItemsOf(TransferSlipItems', i) = ItemsOf(TransferSlipItems, i)]_vars

\* C20: each user has at most one slip in status 'Dang chuyen'.
C20_OneActiveSlipPerCreator ==
    \A by \in Users :
        Cardinality({i \in Ids(TransferSlips) :
                        /\ TransferSlips[i].created_by = by
                        /\ TransferSlips[i].status = "Dang chuyen"}) <= 1

---------------------------------------------------------------------------
\* Properties of failure handling

\* C21: a failing spreadsheet sync or notification never invalidates the
\* mutation that triggered it. Whatever the sync does, save_shipment of a new
\* qr_code and update_shipment_status of an existing one report success, the
\* row is written and the audit entry appended; a notification, sent or
\* failed, leaves the audit log alone and writes nothing of a row but
\* telegram_message_id, and a failed one writes nothing at all.
C21_SideEffectsIsolated ==
    [][/\ (call'.op = "save_shipment" /\ IdsByQr(ShipmentDetails, call'.qr) = {})
          => /\ call'.success
             /\ Len(ShipmentDetails') = Len(ShipmentDetails) + 1
             /\ ShipmentDetails'[call'.id].qr_code = call'.qr
             /\ Len(AuditLog') = Len(AuditLog) + 1
             /\ LastAudit(AuditLog').action = "CREATED"
             /\ LastAudit(AuditLog').shipment_id = call'.id
       /\ (call'.op = "update_shipment_status"
           /\ IdsByQr(ShipmentDetails, call'.qr) # {})
          => /\ call'.success
             /\ ShipmentDetails'[call'.id].status = call'.arg
             /\ ShipmentDetails'[call'.id].updated_by = call'.by
             /\ Len(AuditLog') = Len(AuditLog) + 1
             /\ LastAudit(AuditLog').action = "STATUS_CHANGED"
             /\ LastAudit(AuditLog').old_value = ShipmentDetails[call'.id].status
             /\ LastAudit(AuditLog').new_value = call'.arg
       /\ call'.op = "notify_shipment_if_received"
          => /\ AuditLog' = AuditLog
             /\ Len(ShipmentDetails') = Len(ShipmentDetails)
             /\ \A i \in Ids(ShipmentDetails) :
                   ShipmentDetails'[i] =
                      [ShipmentDetails[i] EXCEPT !.telegram_message_id =
                          ShipmentDetails'[i].telegram_message_id]
             /\ ~call'.success => ShipmentDetails' = ShipmentDetails]_vars

\* a status change to "Da nhan" is stored and audited, and the notification
\* sent after it has failed
C21_Witness ==
    /\ call.op = "notify_shipment_if_received"
    /\ call.sent = 1
    /\ ~call.success
    /\ ShipmentDetails[call.id].status = "Da nhan"
    /\ ShipmentDetails[call.id].updated_by = "user"
    /\ ShipmentDetails[call.id].telegram_message_id = NoMessageId
    /\ \E k \in Ids(AuditLog) :
          /\ AuditLog[k].action = "STATUS_CHANGED"
          /\ AuditLog[k].shipment_id = call.id
          /\ AuditLog[k].new_value = "Da nhan"

\* C22: a core mutation that reports a failure has changed nothing that is
\* stored: shipments, audit entries, slips and slip items are as before.
C22_FailureChangesNothing ==
    [][(/\ call'.op \in {"save_shipment", "update_shipment_status",
                         "show_manage_shipments", "show_dashboard",
                         "add_shipment_to_transfer_slip", "complete_transfer"}
        /\ ~call'.success)
       => UNCHANGED <<ShipmentDetails, AuditLog, TransferSlips,
                      TransferSlipItems>>]_vars

---------------------------------------------------------------------------
\* Properties of the audit log and of the slip notification

\* the entries of a log, as a set
Entries(log) == {log[k] : k \in Ids(log)}

\* C23: the audit log is append-only. Every operation but the cleanup and
\* the full reset leaves each existing entry in place and unchanged (the old
\* log is a prefix of the new one); the cleanup only removes entries, leaves
\* the others unchanged and in order, and removes some only when the log
\* holds more than max_rows entries; the full reset empties the log.
C23_AuditAppendOnly ==
    [][/\ call'.op \notin {"cleanup_audit_log", "clear_all_data"}
          => IsPrefix(AuditLog, AuditLog')
       /\ call'.op = "cleanup_audit_log"
          => /\ AuditLog' = SelectSeq(AuditLog, LAMBDA r : r \in Entries(AuditLog'))
             /\ AuditLog' # AuditLog => Len(AuditLog) > call'.arg
       /\ call'.op = "clear_all_data" => AuditLog' = <<>>]_vars

\* a status change has been audited after a creation, and a cleanup has
\* then removed the oldest entry and kept the newer one as it was
C23_Witness ==
    /\ call.op = "cleanup_audit_log"
    /\ call.count > 0
    /\ AuditLog # <<>>
    /\ AuditLog[1].action = "STATUS_CHANGED"
    /\ AuditLog[1].id > 1

\* C24: a completion that succeeds sends exactly one message, for the slip,
\* whatever the number of members and the target status; it sends none for
\* a member (no member's telegram_message_id is written).
C24_OneNotificationPerSlip ==
    [][(IsComplete(call') /\ call'.success) =>
        /\ call'.sent = 1
        /\ \A m \in MemberSet(call'.id) :
              ShipmentDetails'[m].telegram_message_id =
                 ShipmentDetails[m].telegram_message_id]_vars

\* a slip of two members was completed with the status "Da nhan", the one
\* a shipment is notified for
C24_Witness ==
    /\ IsComplete(call) /\ call.success
    /\ call.arg = "Da nhan"
    /\ call.sent = 1
    /\ Cardinality(MemberSet(call.id)) = 2
    /\ \A m \in MemberSet(call.id) : ShipmentDetails[m].status = "Da nhan"

---------------------------------------------------------------------------
\* Properties of the direct edit, continued (SpecEdit)

\* C25 as stated: no step changes the qr_code of an existing shipment.
C25_QrCodeImmutable ==
    [][\A i \in Ids(ShipmentDetails) :
          ShipmentDetails'[i].qr_code = ShipmentDetails[i].qr_code]_vars

\* C25 (amended): the qr_code of an existing shipment is changed by a
\* successful edit of the manage form only, which gives the shipment the code
\* entered in the form, a code no other shipment has; a failed edit and
\* every other operation leave every qr_code as it was.
C25_QrCodeChangedByEditOnly ==
    [][/\ \A i \in Ids(ShipmentDetails) :
             ShipmentDetails'[i].qr_code # ShipmentDetails[i].qr_code
             => /\ call'.op = "show_manage_shipments"
                /\ call'.success
                /\ call'.id = i
       /\ (call'.op = "show_manage_shipments" /\ call'.success)
          => /\ ShipmentDetails'[call'.id].qr_code = call'.qr
             /\ \A j \in Ids(ShipmentDetails) :
                   j # call'.id => ShipmentDetails[j].qr_code # call'.qr]_vars

\* an edit has given the shipment created as T-001 the code T-002
C25_Witness ==
    /\ call.op = "show_manage_shipments" /\ call.success
    /\ call.qr = "T-002"
    /\ ShipmentDetails[call.id].qr_code = "T-002"
    /\ \E k \in Ids(AuditLog) :
          /\ AuditLog[k].action = "CREATED"
          /\ AuditLog[k].shipment_id = call.id
          /\ AuditLog[k].new_value = CreatedMsg("T-001")

\* C26: a direct edit that changes the status of a shipment appends exactly
\* one audit entry, whose old_value is the status before the edit and whose
\* new_value is the status asked for.
C26_EditAuditsStatus ==
    [][(/\ IsEdit(call') /\ call'.success
        /\ call'.id \in Ids(ShipmentDetails)
        /\ ShipmentDetails'[call'.id].status # ShipmentDetails[call'.id].status)
       => /\ Len(AuditLog') = Len(AuditLog) + 1
          /\ LastAudit(AuditLog').shipment_id = call'.id
          /\ LastAudit(AuditLog').old_value = ShipmentDetails[call'.id].status
          /\ LastAudit(AuditLog').new_value = call'.arg]_vars

---------------------------------------------------------------------------
\* Properties of calls running at once

\* the sessions inside, or just out of, a call of op
Calling(op) == {s \in Sessions : thread[s].op = op}

\* C27: of the calls of notify_shipment_if_received(id) that two sessions
\* make at once for a shipment with no telegram_message_id, at most one
\* sends a message.
C27_AtMostOneMessage ==
    \A id \in Ids(ShipmentDetails) :
       Cardinality({s \in Calling("notify_shipment_if_received") :
                       /\ thread[s].id = id
                       /\ thread[s].already_sent = NoMessageId
                       /\ thread[s].sent = 1}) <= 1

\* C28: when the status changes of two sessions that each carry an image
\* have both returned, the image of each is in the image_url of the shipment.
C28_BothImagesKept ==
    \A s \in Calling("update_shipment_status") :
       (/\ thread[s].pc = "done"
        /\ thread[s].success
        /\ thread[s].image # <<>>
        /\ \A t \in Calling("update_shipment_status") :
              thread[t].pc \in {"done", "idle"})
       => \E k \in 1..Len(ShipmentDetails[thread[s].id].image_url) :
             ShipmentDetails[thread[s].id].image_url[k] = thread[s].image[1]

\* C29: of two sweeps running at once, every shipment that was stale when
\* a sweep was called has been escalated once that sweep has committed, no
\* shipment is escalated by both, and each sweep reports the number of
\* shipments it escalated, so that the two counts add up to the number of
\* shipments escalated.
C29_SweepsEscalateOnce ==
    LET sweeps == Calling("auto_update_status_after_1hour")
    IN /\ \A s \in sweeps :
             /\ thread[s].count = Cardinality(thread[s].escalated)
             /\ (thread[s].pc = "done" /\ thread[s].success)
                => \A i \in thread[s].stale :
                      ShipmentDetails[i].status \in {"Nhap kho xu ly", "Dang xu ly"}
       /\ \A s, t \in sweeps :
             s # t =>
             /\ thread[s].escalated \cap thread[t].escalated = {}
             /\ (/\ thread[s].pc = "done" /\ thread[s].success
                 /\ thread[t].pc = "done" /\ thread[t].success)
                => \A i \in thread[s].stale \cap thread[t].stale :
                      (i \in thread[s].escalated) # (i \in thread[t].escalated)

\* two sweeps were called while the same shipment was stale, both have
\* committed, one has escalated the shipment and the other none
C29_Witness ==
    /\ thread["s1"].op = "auto_update_status_after_1hour"
    /\ thread["s2"].op = "auto_update_status_after_1hour"
    /\ thread["s1"].pc = "done" /\ thread["s1"].success
    /\ thread["s2"].pc = "done" /\ thread["s2"].success
    /\ thread["s1"].stale = {1} /\ thread["s2"].stale = {1}
    /\ thread["s1"].count + thread["s2"].count = 1
    /\ ShipmentDetails[1].status = "Nhap kho xu ly"

\* the STATUS_CHANGED entries of a shipment, in the order of insertion
StatusEntries(id) ==
    SelectSeq(AuditLog, LAMBDA r : r.action = "STATUS_CHANGED" /\ r.shipment_id = id)

\* C30: the STATUS_CHANGED entries of a shipment form a chain, each
\* old_value being the new_value of the entry before it, and when no status
\* change is under way the new_value of the last is the status stored.
C30_AuditChain ==
    \A id \in Ids(ShipmentDetails) :
       LET entries == StatusEntries(id)
       IN /\ \A k \in 2..Len(entries) :
                entries[k].old_value = entries[k - 1].new_value
          /\ (/\ entries # <<>>
              /\ \A s \in Sessions : thread[s].pc \in {"idle", "done"})
             => entries[Len(entries)].new_value = ShipmentDetails[id].status

====
